---------------------------- MODULE Spec2Model ----------------------------
(***************************************************************************)
(* A model of the pipedrive package (src/pipedrive.go): the Client, its    *)
(* three public operations FindOrCreateOrganization, FindOrCreatePerson    *)
(* and CreateDeal, and the helpers authenticatedURL and createEntitiy.     *)
(*                                                                         *)
(* A call is a sequence of steps separated by the blocking calls on the    *)
(* Requestor (httpClient.Get, httpClient.Post).  The Requestor is the      *)
(* environment: it may return an error, a body whose read fails, or any    *)
(* body.                                                                   *)
(*                                                                         *)
(* Strings are sequences of tokens.  The tokens "#", "?", "&", "=", "+"    *)
(* and "%" are the URL-significant characters, "@" is a character that a   *)
(* query escapes, and "%23", "%25", "%26", "%2B", "%3D" and "%40" are the   *)
(* escapes of "#", "%", "&", "+", "=" and "@".  Every other token is a run  *)
(* of unreserved characters; none that can follow "%" in a URL starts with  *)
(* two hexadecimal digits, so a "%" token never starts a valid escape.      *)
(***************************************************************************)
EXTENDS Integers, Sequences, FiniteSets, TLC

\* Remote identifiers are drawn from 1..MaxId.
MaxId == 2
\* A person carries 0..MaxEmails e-mail addresses.
MaxEmails == 2
MaxQueryLen == 3
MaxBuilds == 2

(***************************************************************************)
(* JSON documents (encoding/json).  Numbers are kept in tenths, so that    *)
(* the float64 -> int conversion is a real truncation.                     *)
(***************************************************************************)
JNull == [t |-> "null"]
JNum(n) == [t |-> "num", n10 |-> n]
JInt(i) == JNum(10 * i)
JStr(s) == [t |-> "str", s |-> s]
JArr(a) == [t |-> "arr", a |-> a]
JObj(o) == [t |-> "obj", o |-> o]
\* A body that is not JSON text.
Garbage == [t |-> "garbage"]
\* A Go value json.Marshal rejects (a channel, a func).
Unencodable == [t |-> "chan"]

\* The Go nil: as an interface value (t) and as an error (type).
Nil == [t |-> "nil", type |-> "nil"]

NilMap == <<>>

\* json.Unmarshal(buf.Bytes(), &data) with data a nil map[string]interface{}.
Unmarshal(body) ==
    CASE body.t = "garbage" -> [err |-> [type |-> "InvalidJSON", what |-> "syntax"], data |-> NilMap]
      [] body.t = "null"    -> [err |-> Nil, data |-> NilMap]
      [] body.t = "obj"     -> [err |-> Nil, data |-> body.o]
      [] OTHER              -> [err |-> [type |-> "InvalidJSON", what |-> "type"], data |-> NilMap]

\* Index taking an empty array for nil as well.
IndexEmptyIsNil(m, key) ==
    IF key \in DOMAIN m /\ m[key].t # "null" /\ m[key] # JArr(<<>>) THEN m[key] ELSE Nil

\* data[key] on a Go map holding decoded JSON: nil for a missing key and for
\* a JSON null.
Index(m, key) ==
    IF key \in DOMAIN m /\ m[key].t # "null" THEN m[key] ELSE Nil

\* int(f) for a float64 f: truncation toward zero.
IntOfFloat(n10) ==
    IF n10 >= 0 THEN n10 \div 10 ELSE -((-n10) \div 10)

\* v.(map[string]interface{})["id"].(float64), then int(...).
ObjectID(v) ==
    IF v.t # "obj" THEN [panic |-> TRUE, id |-> 0]
    ELSE LET id == Index(v.o, "id")
         IN IF id.t # "num" THEN [panic |-> TRUE, id |-> 0]
            ELSE [panic |-> FALSE, id |-> IntOfFloat(id.n10)]

\* FirstElementID reading the last element of the array.
FirstElementIDLast(v) ==
    IF v.t # "arr" THEN [panic |-> TRUE, id |-> 0]
    ELSE IF Len(v.a) = 0 THEN [panic |-> TRUE, id |-> 0]
    ELSE ObjectID(v.a[Len(v.a)])

\* int(v.([]interface{})[0].(map[string]interface{})["id"].(float64))
FirstElementID(v) ==
    IF v.t # "arr" THEN [panic |-> TRUE, id |-> 0]
    ELSE IF Len(v.a) = 0 THEN [panic |-> TRUE, id |-> 0]
    ELSE ObjectID(v.a[1])

\* json.Marshal(bodyData) for a map[string]interface{}.
RECURSIVE Encodable(_)
Encodable(v) ==
    CASE v.t = "chan" -> FALSE
      [] v.t = "arr"  -> \A i \in 1..Len(v.a) : Encodable(v.a[i])
      [] v.t = "obj"  -> \A k \in DOMAIN v.o : Encodable(v.o[k])
      [] OTHER        -> TRUE

Marshal(bodyData) ==
    IF \A k \in DOMAIN bodyData : Encodable(bodyData[k])
    THEN [err |-> Nil, body |-> JObj(bodyData)]
    ELSE [err |-> [type |-> "Marshal"], body |-> Garbage]

(***************************************************************************)
(* net/url                                                                 *)
(***************************************************************************)
\* Position of the first occurrence of token c in s, 0 when there is none.
RECURSIVE IndexOf(_, _, _)
IndexOf(s, c, i) ==
    IF i > Len(s) THEN 0
    ELSE IF s[i] = c THEN i
    ELSE IndexOf(s, c, i + 1)

Before(s, c) ==
    LET i == IndexOf(s, c, 1) IN IF i = 0 THEN s ELSE SubSeq(s, 1, i - 1)

After(s, c) ==
    LET i == IndexOf(s, c, 1) IN IF i = 0 THEN <<>> ELSE SubSeq(s, i + 1, Len(s))

\* unescape fails on a "%" that does not start a valid escape.
BadEscape(s) == IndexOf(s, "%", 1) # 0

\* The byte an escape token stands for, and the escape of a byte.
Unescaped(tok) ==
    CASE tok = "%23" -> "#"
      [] tok = "%25" -> "%"
      [] tok = "%26" -> "&"
      [] tok = "%2B" -> "+"
      [] tok = "%3D" -> "="
      [] tok = "%40" -> "@"
      [] OTHER       -> tok

Escaped(tok) ==
    CASE tok = "#" -> "%23"
      [] tok = "%" -> "%25"
      [] tok = "&" -> "%26"
      [] tok = "+" -> "%2B"
      [] tok = "=" -> "%3D"
      [] tok = "@" -> "%40"
      [] OTHER     -> tok

\* url.QueryUnescape on a key or a value of a query: "+" is a space, an
\* escape is its byte.
QueryUnescape(s) ==
    [i \in 1..Len(s) |-> IF s[i] = "+" THEN " " ELSE Unescaped(s[i])]

\* url.QueryEscape: a space is "+", every other reserved byte its escape.
QueryEscape(s) ==
    [i \in 1..Len(s) |-> IF s[i] = " " THEN "+" ELSE Escaped(s[i])]

\* The pieces of a query between "&" tokens.
RECURSIVE SplitAmp(_)
SplitAmp(q) ==
    IF IndexOf(q, "&", 1) = 0 THEN <<q>>
    ELSE <<Before(q, "&")>> \o SplitAmp(After(q, "&"))

\* Values.Add(key, value)
ValuesAdd(vals, key, value) ==
    IF key \in DOMAIN vals
    THEN [vals EXCEPT ![key] = Append(@, value)]
    ELSE [k \in DOMAIN vals \cup {key} |-> IF k = key THEN <<value>> ELSE vals[k]]

\* url.ParseQuery as URL.Query() uses it: a piece whose key or value does not
\* unescape is dropped, an empty piece is skipped.
RECURSIVE ParsePieces(_, _)
ParsePieces(pieces, vals) ==
    IF pieces = <<>> THEN vals
    ELSE LET p == Head(pieces)
             key == Before(p, "=")
             value == After(p, "=")
         IN IF p = <<>> \/ BadEscape(key) \/ BadEscape(value)
            THEN ParsePieces(Tail(pieces), vals)
            ELSE ParsePieces(Tail(pieces),
                             ValuesAdd(vals, QueryUnescape(key), QueryUnescape(value)))

ParseQuery(q) == ParsePieces(SplitAmp(q), <<>>)

\* url.Parse: the fragment is cut at the first "#", the query at the first
\* "?"; a bad escape in the part before the query or in the fragment is an
\* error, the query is kept raw.
urlParse(raw) ==
    LET rest == Before(raw, "#")
        frag == After(raw, "#")
        head == Before(rest, "?")
        query == After(rest, "?")
    IN IF BadEscape(head) \/ BadEscape(frag)
       THEN [err |-> [type |-> "MalformedURL"], url |-> Nil]
       ELSE [err |-> Nil,
             url |-> [Head |-> head, RawQuery |-> query, Fragment |-> frag]]

\* The tokens that keys are made of, in the byte order of Go strings.  No
\* token is a prefix of another, so comparing token by token compares the
\* strings.
TokenOrder ==
    <<" ", "#", "%", "&", "+", "1", "=", "@", "api_token", "joe", "org",
      "search_by_email", "term", "tok", "x.io", "zed">>

\* a < b on Go strings.
RECURSIVE StringLess(_, _)
StringLess(a, b) ==
    IF b = <<>> THEN FALSE
    ELSE IF a = <<>> THEN TRUE
    ELSE IF Head(a) = Head(b) THEN StringLess(Tail(a), Tail(b))
    ELSE IndexOf(TokenOrder, Head(a), 1) < IndexOf(TokenOrder, Head(b), 1)

\* sort.Strings leaving the keys in the order they came.
SortStringsSkipped(keys) == keys

\* sort.Strings(keys)
RECURSIVE SortStrings(_)
SortStrings(keys) ==
    IF keys = <<>> THEN <<>>
    ELSE LET least == CHOOSE i \in 1..Len(keys) :
                          \A j \in 1..Len(keys) : ~StringLess(keys[j], keys[i])
         IN <<keys[least]>>
            \o SortStrings(SubSeq(keys, 1, least - 1) \o SubSeq(keys, least + 1, Len(keys)))

\* The orders in which "for k := range v" can yield the keys of a map.
RECURSIVE KeyOrders(_)
KeyOrders(keys) ==
    IF keys = {} THEN {<<>>}
    ELSE UNION {{<<k>> \o rest : rest \in KeyOrders(keys \ {k})} : k \in keys}

\* The "key=value" pieces of one key, each after an "&" when something is
\* already written.
RECURSIVE EncodeKey(_, _, _)
EncodeKey(written, key, values) ==
    IF values = <<>> THEN written
    ELSE EncodeKey((IF written = <<>> THEN <<>> ELSE written \o <<"&">>)
                     \o QueryEscape(key) \o <<"=">> \o QueryEscape(Head(values)),
                   key, Tail(values))

RECURSIVE EncodeKeys(_, _, _)
EncodeKeys(written, keys, vals) ==
    IF keys = <<>> THEN written
    ELSE EncodeKeys(EncodeKey(written, Head(keys), vals[Head(keys)]), Tail(keys), vals)

\* Values.Encode, the map yielding its keys in the order iter.
Encode(vals, iter) == EncodeKeys(<<>>, SortStrings(iter), vals)

\* authenticatedURL up to query.Add: the parsed URL and the query values.
authedQuery(c, path) ==
    LET authedURL == urlParse(c.BaseURL \o path)
    IN IF authedURL.err # Nil
       THEN [err |-> authedURL.err, url |-> Nil, query |-> <<>>]
       ELSE [err |-> Nil, url |-> authedURL.url,
             query |-> ValuesAdd(ParseQuery(authedURL.url.RawQuery),
                                 <<"api_token">>, c.APIToken)]

\* authenticatedURL, the query map yielding its keys in the order iter.
authenticatedURLRanging(c, path, iter) ==
    LET authed == authedQuery(c, path)
    IN IF authed.err # Nil
       THEN [err |-> authed.err, url |-> Nil]
       ELSE [err |-> Nil,
             url |-> [authed.url EXCEPT !.RawQuery = Encode(authed.query, iter)]]

\* authenticatedURL, for some order of the map's keys.
authenticatedURL(c, path) ==
    authenticatedURLRanging(c, path,
        CHOOSE iter \in KeyOrders(DOMAIN authedQuery(c, path).query) : TRUE)

\* URL.String() of a URL made of a head, a query and a fragment; in a
\* fragment only "#" and "%" are escaped.
String(url) ==
    url.Head \o <<"?">> \o url.RawQuery
    \o (IF url.Fragment = <<>> THEN <<>>
        ELSE <<"#">> \o [i \in 1..Len(url.Fragment) |->
                            LET b == Unescaped(url.Fragment[i])
                            IN IF b \in {"#", "%"} THEN Escaped(b) ELSE b])

\* The search paths of FindOrCreateOrganization and FindOrCreatePerson.
OrganizationFindPath(name) ==
    <<"/organizations/find", "?", "term", "=">> \o name

PersonFindPath(email) ==
    <<"/persons/find", "?", "search_by_email", "=", "1", "&", "term", "=">> \o email[1]

(***************************************************************************)
(* The inputs: client configurations and the entities callers pass in.     *)
(***************************************************************************)
Procs == {"p1", "p2"}
\* The thread of a single-threaded caller.
MainProc == "p1"

BaseURLs == {<<"http://base">>, <<"http://base/", "%">>}
Tokens == {<<"tok">>}
DefaultUserIDs == {0, 7}

Names == {<<"org">>, <<"#", "%">>}
Addresses == {<<"joe", "@", "x.io">>, <<"#", "%">>}

RECURSIVE SeqsUpTo(_, _)
SeqsUpTo(S, n) ==
    IF n = 0 THEN {<<>>}
    ELSE LET shorter == SeqsUpTo(S, n - 1)
         IN shorter \cup {Append(s, x) : s \in shorter, x \in S}

OrgFields ==
    {<<>>, [custom |-> JStr(<<"x">>)], [owner_id |-> JInt(8)], [custom |-> Unencodable]}
DealFields ==
    {<<>>, [custom |-> JStr(<<"x">>)], [user_id |-> JInt(5)], [custom |-> Unencodable]}

Organizations ==
    [kind : {"org"}, ID : {0, 9}, Name : Names, OwnerID : {0, 8}, Fields : OrgFields]
Persons ==
    [kind : {"person"}, ID : {0, 9}, OwnerID : {0, 8}, OrganizationID : {3},
     Name : {<<"joe">>}, Email : SeqsUpTo(Addresses, MaxEmails),
     Phone : {<<>>, <<<<"555">>>>}]
Deals ==
    [kind : {"deal"}, ID : {0, 9}, Title : {<<"deal">>}, Value : {1000},
     UserID : {0, 8}, PersonID : {4}, OrganizationID : {3}, Fields : DealFields]
NoEntity == [kind |-> "none"]

\* What authenticatedURL is given when it is called on its own: API tokens,
\* of which one holds a reserved character, and paths with and without a
\* query of at most MaxQueryLen tokens.
URLTokens == {<<"tok">>, <<"zed", "&">>}
QueryAlphabet == {"term", "zed", "api_token", "=", "&", "+", "%", "%26", "#"}
URLPaths ==
    {<<"/organizations">>}
    \cup {<<"/organizations", "?">> \o q : q \in SeqsUpTo(QueryAlphabet, MaxQueryLen)}

\* Names and addresses to search for, with and without reserved characters.
NameAlphabet == {"org", "zed", "&", "=", "#", "+", "%", "@"}
SearchNames == SeqsUpTo(NameAlphabet, MaxQueryLen)
SearchAddresses ==
    {<<"joe", "@", "x.io">>, <<"joe", "+", "zed", "@", "x.io">>, <<"zed", "&", "org">>}
SearchEmails == SeqsUpTo(SearchAddresses, MaxEmails) \ {<<>>}

URLInputs ==
    [kind : {"path"}, path : URLPaths]
    \cup [kind : {"org"}, Name : SearchNames]
    \cup [kind : {"person"}, Email : SearchEmails]
NoInput == [kind |-> "none"]

(***************************************************************************)
(* What the Requestor can answer.                                          *)
(***************************************************************************)
TransportErrors == {"timeout", "refused"}

Envelope(d) == JObj([success |-> [t |-> "true"], data |-> d])

Bodies ==
    {Garbage, JNull, JArr(<<>>),
     Envelope(JNull),
     JObj([success |-> [t |-> "false"], error |-> JStr(<<"denied">>)]),
     Envelope(JArr(<<>>)),
     Envelope(JStr(<<"x">>)),
     Envelope(JArr(<<JObj([name |-> JStr(<<"org">>)])>>)),
     Envelope(JArr(<<JObj([id |-> JStr(<<"1">>)])>>)),
     Envelope(JArr(<<JObj([id |-> JNum(25)])>>)),
     Envelope(JObj([name |-> JStr(<<"org">>)])),
     Envelope(JObj([id |-> JNum(25)]))}
    \cup {Envelope(JArr(<<JObj([id |-> JInt(n)])>>)) : n \in 1..MaxId}
    \cup {Envelope(JArr(<<JObj([id |-> JInt(n), name |-> JStr(<<"other">>)]),
                          JObj([id |-> JInt(9)])>>)) : n \in 1..MaxId}
    \cup {Envelope(JObj([id |-> JInt(n)])) : n \in 1..MaxId}

\* Get/Post return (nil, err); or a response whose Body fails on read; or a
\* response with a body.
Outcomes ==
    [kind : {"error", "readerr"}, e : TransportErrors]
    \cup [kind : {"body"}, body : Bodies]

(***************************************************************************)
(* State                                                                   *)
(***************************************************************************)
VARIABLES
    client,   \* the Client NewClient returned
    pc,       \* per call: "idle", "get", "post", "returned", "panicked"
    ent,      \* per call: the entity the caller passed by pointer
    entry,    \* per call: that entity as it was when the call began
    buf,      \* per call: the local buf of FindOrCreate*: the search response
    err,      \* per call: the error returned
    wire,     \* per call: the requests handed to the Requestor, in order
    got,      \* per call: what the Requestor answered, in order
    urlIn,    \* what authenticatedURL is called for, when called on its own
    urlOut,   \* what those calls of authenticatedURL returned, in order
    store     \* the entities of the remote CRM, in the order of their ids

vars == <<client, pc, ent, entry, buf, err, wire, got, urlIn, urlOut, store>>

\* NewClient
NewClient(baseURL, apiToken, defaultUserID) ==
    [APIToken |-> apiToken, BaseURL |-> baseURL, DefaultUserID |-> defaultUserID]

\* No call has been made.
NoCalls ==
    /\ pc = [p \in Procs |-> "idle"]
    /\ ent = [p \in Procs |-> NoEntity]
    /\ entry = [p \in Procs |-> NoEntity]
    /\ buf = [p \in Procs |-> Nil]
    /\ err = [p \in Procs |-> Nil]
    /\ wire = [p \in Procs |-> <<>>]
    /\ got = [p \in Procs |-> <<>>]

Init ==
    /\ client \in {NewClient(b, t, d) : b \in BaseURLs, t \in Tokens, d \in DefaultUserIDs}
    /\ NoCalls
    /\ urlIn = NoInput
    /\ urlOut = <<>>
    /\ store = <<>>

(***************************************************************************)
(* The code between two blocking calls, as a function of what came back.   *)
(* A step yields the next position of the call, the entity as the step     *)
(* leaves it, the error returned (at "returned"), the request handed to    *)
(* the Requestor (at "get" and "post") and the local buf.                  *)
(***************************************************************************)
Step(pcv, e, error, request, b) ==
    [pc |-> pcv, ent |-> e, err |-> error, req |-> request, buf |-> b]

\* "return err" with the err a Get or a Post returned.
TransportError(e) == [type |-> "TransportError", e |-> e]
\* "return err" with the err buf.ReadFrom returned.
ReadError(e) == [type |-> "ReadError", e |-> e]

\* createEntitiy up to the call of httpClient.Post.
createEntitiySend(c, path, bodyData) ==
    LET postBody == Marshal(bodyData)
        postURL == authenticatedURL(c, path)
    IN IF postBody.err # Nil THEN [err |-> postBody.err, req |-> <<>>]
       ELSE IF postURL.err # Nil THEN [err |-> postURL.err, req |-> <<>>]
       ELSE [err |-> Nil,
             req |-> <<[method |-> "POST", url |-> postURL.url,
                        contentType |-> "application/json", body |-> postBody.body]>>]

\* createEntitiyReceive dropping the error httpClient.Post returned.
createEntitiyReceiveSwallows(r) ==
    CASE r.kind = "error"   -> [err |-> Nil, data |-> NilMap]
      [] r.kind = "readerr" -> [err |-> ReadError(r.e), data |-> NilMap]
      [] OTHER              -> Unmarshal(r.body)

\* createEntitiy from the return of httpClient.Post: (data, err).
createEntitiyReceive(r) ==
    CASE r.kind = "error"   -> [err |-> TransportError(r.e), data |-> NilMap]
      [] r.kind = "readerr" -> [err |-> ReadError(r.e), data |-> NilMap]
      [] OTHER              -> Unmarshal(r.body)

\* FindOrCreateOrganization up to the call of httpClient.Get.
FindOrCreateOrganizationCall(c, org) ==
    LET authed == authenticatedURL(c, OrganizationFindPath(org.Name))
    IN IF authed.err # Nil
       THEN Step("returned", org, authed.err, <<>>, Nil)
       ELSE Step("get", org, Nil, <<[method |-> "GET", url |-> authed.url]>>, Nil)

\* postStruct of FindOrCreateOrganization.
OrganizationPostStruct(c, org) ==
    LET withFields == org.Fields @@ [name |-> JStr(org.Name)]
    IN IF c.DefaultUserID # 0
       THEN [owner_id |-> JInt(c.DefaultUserID)] @@ withFields
       ELSE withFields

\* FindOrCreateOrganization from the return of httpClient.Get up to the
\* call of httpClient.Post inside createEntitiy.
FindOrCreateOrganizationGot(c, org, r) ==
    IF r.kind = "error" THEN Step("returned", org, TransportError(r.e), <<>>, Nil)
    ELSE IF r.kind = "readerr" THEN Step("returned", org, ReadError(r.e), <<>>, Nil)
    ELSE LET dec == Unmarshal(r.body)
             data == Index(dec.data, "data")
         IN IF dec.err # Nil THEN Step("returned", org, dec.err, <<>>, r.body)
            ELSE IF data # Nil
            THEN LET first == FirstElementID(data)
                 IN IF first.panic
                    THEN Step("panicked", org, Nil, <<>>, r.body)
                    ELSE Step("returned", [org EXCEPT !.ID = first.id], Nil, <<>>, r.body)
            ELSE LET sent == createEntitiySend(c, <<"/organizations">>,
                                               OrganizationPostStruct(c, org))
                 IN IF sent.err # Nil
                    THEN Step("returned", org, sent.err, <<>>, r.body)
                    ELSE Step("post", org, Nil, sent.req, r.body)

\* FindOrCreateOrganization from the return of httpClient.Post; b is the
\* local buf, which holds the search response.
FindOrCreateOrganizationPosted(org, b, r) ==
    LET res == createEntitiyReceive(r)
        data == Index(res.data, "data")
    IN IF res.err # Nil THEN Step("returned", org, res.err, <<>>, b)
       ELSE IF data # Nil
       THEN LET created == ObjectID(data)
            IN IF created.panic
               THEN Step("panicked", org, Nil, <<>>, b)
               ELSE Step("returned", [org EXCEPT !.ID = created.id], Nil, <<>>, b)
       ELSE Step("returned", org,
                 [type |-> "CreationFailed", what |-> "org", carried |-> b], <<>>, b)

\* FindOrCreatePersonCall searching with an empty term when there is no email.
FindOrCreatePersonCallUnchecked(c, newPerson) ==
    LET term == IF Len(newPerson.Email) < 1 THEN <<>> ELSE newPerson.Email[1]
        authed == authenticatedURL(c,
                 <<"/persons/find", "?", "search_by_email", "=", "1", "&", "term", "=">>
                 \o term)
    IN IF authed.err # Nil
       THEN Step("returned", newPerson, authed.err, <<>>, Nil)
       ELSE Step("get", newPerson, Nil, <<[method |-> "GET", url |-> authed.url]>>, Nil)

\* FindOrCreatePerson up to the call of httpClient.Get.
FindOrCreatePersonCall(c, newPerson) ==
    IF Len(newPerson.Email) < 1
    THEN Step("returned", newPerson, [type |-> "InvalidArgument"], <<>>, Nil)
    ELSE LET authed == authenticatedURL(c, PersonFindPath(newPerson.Email))
         IN IF authed.err # Nil
            THEN Step("returned", newPerson, authed.err, <<>>, Nil)
            ELSE Step("get", newPerson, Nil, <<[method |-> "GET", url |-> authed.url]>>, Nil)

\* postStruct of FindOrCreatePerson.
PersonPostStruct(c, newPerson) ==
    LET base == [name |-> JStr(newPerson.Name),
                 email |-> JArr([i \in 1..Len(newPerson.Email) |-> JStr(newPerson.Email[i])]),
                 org_id |-> JInt(newPerson.OrganizationID)]
    IN IF c.DefaultUserID # 0
       THEN [owner_id |-> JInt(c.DefaultUserID)] @@ base
       ELSE base

\* FindOrCreatePerson from the return of httpClient.Get up to the call of
\* httpClient.Post inside createEntitiy.
FindOrCreatePersonGot(c, newPerson, r) ==
    IF r.kind = "error" THEN Step("returned", newPerson, TransportError(r.e), <<>>, Nil)
    ELSE IF r.kind = "readerr" THEN Step("returned", newPerson, ReadError(r.e), <<>>, Nil)
    ELSE LET dec == Unmarshal(r.body)
             data == Index(dec.data, "data")
         IN IF dec.err # Nil THEN Step("returned", newPerson, dec.err, <<>>, r.body)
            ELSE IF data # Nil
            THEN LET first == FirstElementID(data)
                 IN IF first.panic
                    THEN Step("panicked", newPerson, Nil, <<>>, r.body)
                    ELSE Step("returned", [newPerson EXCEPT !.ID = first.id], Nil, <<>>, r.body)
            ELSE LET sent == createEntitiySend(c, <<"/persons">>,
                                               PersonPostStruct(c, newPerson))
                 IN IF sent.err # Nil
                    THEN Step("returned", newPerson, sent.err, <<>>, r.body)
                    ELSE Step("post", newPerson, Nil, sent.req, r.body)

\* FindOrCreatePersonPosted returning nil without assigning the created id.
FindOrCreatePersonPostedKeepsID(newPerson, b, r) ==
    LET res == createEntitiyReceive(r)
        data == Index(res.data, "data")
    IN IF res.err # Nil THEN Step("returned", newPerson, res.err, <<>>, b)
       ELSE IF data # Nil
       THEN LET created == ObjectID(data)
            IN IF created.panic
               THEN Step("panicked", newPerson, Nil, <<>>, b)
               ELSE Step("returned", newPerson, Nil, <<>>, b)
       ELSE Step("returned", newPerson,
                 [type |-> "CreationFailed", what |-> "person", carried |-> b], <<>>, b)

\* FindOrCreatePerson from the return of httpClient.Post.
FindOrCreatePersonPosted(newPerson, b, r) ==
    LET res == createEntitiyReceive(r)
        data == Index(res.data, "data")
    IN IF res.err # Nil THEN Step("returned", newPerson, res.err, <<>>, b)
       ELSE IF data # Nil
       THEN LET created == ObjectID(data)
            IN IF created.panic
               THEN Step("panicked", newPerson, Nil, <<>>, b)
               ELSE Step("returned", [newPerson EXCEPT !.ID = created.id], Nil, <<>>, b)
       ELSE Step("returned", newPerson,
                 [type |-> "CreationFailed", what |-> "person", carried |-> b], <<>>, b)

\* bodyData of CreateDeal; newDeal.UserID is already defaulted.
DealBodyData(newDeal) ==
    newDeal.Fields @@ [title |-> JStr(newDeal.Title),
                       value |-> JInt(newDeal.Value),
                       user_id |-> JInt(newDeal.UserID),
                       person_id |-> JInt(newDeal.PersonID),
                       org_id |-> JInt(newDeal.OrganizationID)]

\* CreateDealCall without the default user.
CreateDealCallNoDefault(c, deal) ==
    LET sent == createEntitiySend(c, <<"/deals">>, DealBodyData(deal))
    IN IF sent.err # Nil
       THEN Step("returned", deal, sent.err, <<>>, Nil)
       ELSE Step("post", deal, Nil, sent.req, Nil)

\* CreateDealCall setting the default user over a user the deal names.
CreateDealCallAlwaysDefault(c, deal) ==
    LET newDeal == IF c.DefaultUserID # 0
                   THEN [deal EXCEPT !.UserID = c.DefaultUserID]
                   ELSE deal
        sent == createEntitiySend(c, <<"/deals">>, DealBodyData(newDeal))
    IN IF sent.err # Nil
       THEN Step("returned", newDeal, sent.err, <<>>, Nil)
       ELSE Step("post", newDeal, Nil, sent.req, Nil)

\* CreateDealCall searching for the deal by title first.
CreateDealCallSearches(c, deal) ==
    LET authed == authenticatedURL(c, <<"/deals/find", "?", "term", "=">> \o deal.Title)
    IN IF authed.err # Nil
       THEN Step("returned", deal, authed.err, <<>>, Nil)
       ELSE Step("get", deal, Nil, <<[method |-> "GET", url |-> authed.url]>>, Nil)

\* CreateDeal up to the call of httpClient.Post inside createEntitiy.
CreateDealCall(c, deal) ==
    LET newDeal == IF c.DefaultUserID # 0 /\ deal.UserID = 0
                   THEN [deal EXCEPT !.UserID = c.DefaultUserID]
                   ELSE deal
        sent == createEntitiySend(c, <<"/deals">>, DealBodyData(newDeal))
    IN IF sent.err # Nil
       THEN Step("returned", newDeal, sent.err, <<>>, Nil)
       ELSE Step("post", newDeal, Nil, sent.req, Nil)

\* CreateDealPosted clearing the id when the creation failed.
CreateDealPostedClearsID(newDeal, r) ==
    LET res == createEntitiyReceive(r)
        data == Index(res.data, "data")
    IN IF res.err # Nil THEN Step("returned", newDeal, res.err, <<>>, Nil)
       ELSE IF data # Nil
       THEN LET created == ObjectID(data)
            IN IF created.panic
               THEN Step("panicked", newDeal, Nil, <<>>, Nil)
               ELSE Step("returned", [newDeal EXCEPT !.ID = created.id], Nil, <<>>, Nil)
       ELSE Step("returned", [newDeal EXCEPT !.ID = 0],
                 [type |-> "CreationFailed", what |-> "deal",
                  carried |-> [t |-> "printed", data |-> res.data]], <<>>, Nil)

\* CreateDeal from the return of httpClient.Post; the error prints the
\* decoded map, not the body.
CreateDealPosted(newDeal, r) ==
    LET res == createEntitiyReceive(r)
        data == Index(res.data, "data")
    IN IF res.err # Nil THEN Step("returned", newDeal, res.err, <<>>, Nil)
       ELSE IF data # Nil
       THEN LET created == ObjectID(data)
            IN IF created.panic
               THEN Step("panicked", newDeal, Nil, <<>>, Nil)
               ELSE Step("returned", [newDeal EXCEPT !.ID = created.id], Nil, <<>>, Nil)
       ELSE Step("returned", newDeal,
                 [type |-> "CreationFailed", what |-> "deal",
                  carried |-> [t |-> "printed", data |-> res.data]], <<>>, Nil)

(***************************************************************************)
(* Actions                                                                 *)
(***************************************************************************)
\* A caller calls with entity e; s is the step up to the first blocking call.
Begin(p, e, s) ==
    /\ pc[p] \in {"idle", "returned"}
    /\ pc' = [pc EXCEPT ![p] = s.pc]
    /\ ent' = [ent EXCEPT ![p] = s.ent]
    /\ entry' = [entry EXCEPT ![p] = e]
    /\ err' = [err EXCEPT ![p] = s.err]
    /\ wire' = [wire EXCEPT ![p] = s.req]
    /\ buf' = [buf EXCEPT ![p] = s.buf]
    /\ got' = [got EXCEPT ![p] = <<>>]
    /\ UNCHANGED client

\* The Requestor answers r to the request in flight; s is the step from there.
Resume(p, r, s) ==
    /\ pc' = [pc EXCEPT ![p] = s.pc]
    /\ ent' = [ent EXCEPT ![p] = s.ent]
    /\ err' = [err EXCEPT ![p] = s.err]
    /\ wire' = [wire EXCEPT ![p] = @ \o s.req]
    /\ buf' = [buf EXCEPT ![p] = s.buf]
    /\ got' = [got EXCEPT ![p] = Append(@, r)]
    /\ UNCHANGED <<client, entry>>

FindOrCreateOrganization(p, org) ==
    /\ Begin(p, org, FindOrCreateOrganizationCall(client, org))
    /\ UNCHANGED <<urlIn, urlOut, store>>

OrganizationGetReturns(p, r) ==
    /\ pc[p] = "get" /\ ent[p].kind = "org"
    /\ Resume(p, r, FindOrCreateOrganizationGot(client, ent[p], r))
    /\ UNCHANGED <<urlIn, urlOut, store>>

OrganizationPostReturns(p, r) ==
    /\ pc[p] = "post" /\ ent[p].kind = "org"
    /\ Resume(p, r, FindOrCreateOrganizationPosted(ent[p], buf[p], r))
    /\ UNCHANGED <<urlIn, urlOut, store>>

FindOrCreatePerson(p, person) ==
    /\ Begin(p, person, FindOrCreatePersonCall(client, person))
    /\ UNCHANGED <<urlIn, urlOut, store>>

PersonGetReturns(p, r) ==
    /\ pc[p] = "get" /\ ent[p].kind = "person"
    /\ Resume(p, r, FindOrCreatePersonGot(client, ent[p], r))
    /\ UNCHANGED <<urlIn, urlOut, store>>

PersonPostReturns(p, r) ==
    /\ pc[p] = "post" /\ ent[p].kind = "person"
    /\ Resume(p, r, FindOrCreatePersonPosted(ent[p], buf[p], r))
    /\ UNCHANGED <<urlIn, urlOut, store>>

CreateDeal(p, deal) ==
    /\ Begin(p, deal, CreateDealCall(client, deal))
    /\ UNCHANGED <<urlIn, urlOut, store>>

DealPostReturns(p, r) ==
    /\ pc[p] = "post" /\ ent[p].kind = "deal"
    /\ Resume(p, r, CreateDealPosted(ent[p], r))
    /\ UNCHANGED <<urlIn, urlOut, store>>

\* One caller, one call at a time, any answers.
Next ==
    \/ \E org \in Organizations : FindOrCreateOrganization(MainProc, org)
    \/ \E r \in Outcomes : OrganizationGetReturns(MainProc, r)
    \/ \E r \in Outcomes : OrganizationPostReturns(MainProc, r)
    \/ \E person \in Persons : FindOrCreatePerson(MainProc, person)
    \/ \E r \in Outcomes : PersonGetReturns(MainProc, r)
    \/ \E r \in Outcomes : PersonPostReturns(MainProc, r)
    \/ \E deal \in Deals : CreateDeal(MainProc, deal)
    \/ \E r \in Outcomes : DealPostReturns(MainProc, r)

Spec == Init /\ [][Next]_vars

(***************************************************************************)
(* authenticatedURL called on its own, as the tests call it, and for the   *)
(* two search paths.  Each call ranges over the query map in some order.   *)
(***************************************************************************)
InitURL ==
    /\ client \in {NewClient(b, t, 0) : b \in BaseURLs, t \in URLTokens}
    /\ NoCalls
    /\ urlIn \in URLInputs
    /\ urlOut = <<>>
    /\ store = <<>>

Built(path) ==
    /\ Len(urlOut) < MaxBuilds
    /\ \E iter \in KeyOrders(DOMAIN authedQuery(client, path).query) :
           urlOut' = Append(urlOut, authenticatedURLRanging(client, path, iter))
    /\ UNCHANGED <<client, pc, ent, entry, buf, err, wire, got, urlIn, store>>

BuildURL ==
    /\ urlIn.kind = "path"
    /\ Built(urlIn.path)

SearchOrganizationURL ==
    /\ urlIn.kind = "org"
    /\ Built(OrganizationFindPath(urlIn.Name))

SearchPersonURL ==
    /\ urlIn.kind = "person"
    /\ Built(PersonFindPath(urlIn.Email))

NextURL ==
    \/ BuildURL
    \/ SearchOrganizationURL
    \/ SearchPersonURL

SpecURL == InitURL /\ [][NextURL]_vars

(***************************************************************************)
(* The Requestor in front of a remote CRM that never fails and in which a  *)
(* created entity is findable by its key: an organization by its name, a   *)
(* person by each of its email addresses.  An entity's id is its position  *)
(* in store.                                                               *)
(***************************************************************************)
StoreNames == {<<"org">>, <<"zed">>, <<"zed", "&", "org">>, <<"org", "+", "zed">>}
StoreAddresses == {<<"joe", "@", "x.io">>, <<"joe", "+", "zed", "@", "x.io">>}

StoreEntities ==
    [kind : {"org"}, ID : {0}, Name : StoreNames, OwnerID : {0}, Fields : {<<>>}]
    \cup [kind : {"person"}, ID : {0}, OwnerID : {0}, OrganizationID : {3},
          Name : {<<"joe">>}, Email : SeqsUpTo(StoreAddresses, MaxEmails) \ {<<>>},
          Phone : {<<>>}]

\* The key an entity is searched by.
KeyOf(e) == IF e.kind = "org" THEN e.Name ELSE e.Email[1]

\* The entities whose key has no character that a URL reserves besides "@".
PlainEntities ==
    {e \in StoreEntities :
        \A i \in 1..Len(KeyOf(e)) : KeyOf(e)[i] \notin {"#", "?", "&", "=", "+", "%"}}

StoresAtStart ==
    {<<>>,
     <<[kind |-> "org", keys |-> {<<"org">>}],
       [kind |-> "person", keys |-> {<<"joe", "@", "x.io">>}]>>}

InitStore ==
    /\ client \in {NewClient(b, t, d) : b \in BaseURLs, t \in Tokens, d \in DefaultUserIDs}
    /\ NoCalls
    /\ urlIn = NoInput
    /\ urlOut = <<>>
    /\ store \in StoresAtStart

\* The kind of entity a request is about.
KindAsked(req) ==
    IF req.url.Head[Len(req.url.Head)] \in {"/organizations/find", "/organizations"}
    THEN "org" ELSE "person"

\* The answer to a search: the first entity of the kind asked for that has
\* the term among its keys, null data when there is none or no term.
StoreFinds(req) ==
    LET q == ParseQuery(req.url.RawQuery)
        matches == {i \in 1..Len(store) :
                       /\ store[i].kind = KindAsked(req)
                       /\ <<"term">> \in DOMAIN q
                       /\ q[<<"term">>][1] \in store[i].keys}
    IN [kind |-> "body",
        body |-> IF matches = {} THEN Envelope(JNull)
                 ELSE Envelope(JArr(<<JObj([id |-> JInt(
                          CHOOSE i \in matches : \A j \in matches : i <= j)])>>))]

\* The entity a creation request adds to the store.
StoreAdds(req) ==
    [kind |-> KindAsked(req),
     keys |-> IF KindAsked(req) = "org" THEN {req.body.o.name.s}
              ELSE {req.body.o.email.a[i].s : i \in 1..Len(req.body.o.email.a)}]

\* The answer to a creation request.
StoreCreates(req) ==
    [kind |-> "body", body |-> Envelope(JObj([id |-> JInt(Len(store) + 1)]))]

\* The store answers the search of call p.
StoreAnswersGet(p) ==
    /\ pc[p] = "get"
    /\ LET r == StoreFinds(wire[p][1])
       IN Resume(p, r, IF ent[p].kind = "org"
                       THEN FindOrCreateOrganizationGot(client, ent[p], r)
                       ELSE FindOrCreatePersonGot(client, ent[p], r))
    /\ UNCHANGED <<urlIn, urlOut, store>>

\* The store creates the entity call p posted, and answers.
StoreAnswersPost(p) ==
    /\ pc[p] = "post"
    /\ LET r == StoreCreates(wire[p][2])
       IN Resume(p, r, IF ent[p].kind = "org"
                       THEN FindOrCreateOrganizationPosted(ent[p], buf[p], r)
                       ELSE FindOrCreatePersonPosted(ent[p], buf[p], r))
    /\ store' = Append(store, StoreAdds(wire[p][2]))
    /\ UNCHANGED <<urlIn, urlOut>>

\* A caller's one call.
Call(p, e) ==
    /\ pc[p] = "idle"
    /\ IF e.kind = "org" THEN FindOrCreateOrganization(p, e)
                         ELSE FindOrCreatePerson(p, e)

SameKey(a, b) == a.kind = b.kind /\ KeyOf(a) = KeyOf(b)

\* Two calls in sequence: the second, on another entity with the same key,
\* is made when the first has returned nil.
CallFirst == \E e \in StoreEntities : Call("p1", e)

CallAgain ==
    \E e \in StoreEntities :
        /\ pc["p1"] = "returned"
        /\ err["p1"] = Nil
        /\ SameKey(entry["p1"], e)
        /\ Call("p2", e)

NextSeq ==
    \/ CallFirst
    \/ CallAgain
    \/ \E p \in Procs : StoreAnswersGet(p)
    \/ \E p \in Procs : StoreAnswersPost(p)

SpecSeq == InitStore /\ [][NextSeq]_vars

\* Two goroutines, each with its own entity, both with the same key, a key
\* that the search transmits as it is; their steps interleave.
CallConcurrently(p) ==
    \E e \in PlainEntities :
        /\ \A o \in Procs \ {p} : pc[o] # "idle" => SameKey(entry[o], e)
        /\ Call(p, e)

NextConc ==
    \/ \E p \in Procs : CallConcurrently(p)
    \/ \E p \in Procs : StoreAnswersGet(p)
    \/ \E p \in Procs : StoreAnswersPost(p)

SpecConc == InitStore /\ [][NextConc]_vars

(***************************************************************************)
(* Properties                                                              *)
(***************************************************************************)
Find == {"org", "person"}

GetsOf(p) == Cardinality({i \in 1..Len(wire[p]) : wire[p][i].method = "GET"})
PostsOf(p) == Cardinality({i \in 1..Len(wire[p]) : wire[p][i].method = "POST"})

\* The response is a JSON object whose data is present and not null.
HasData(r) ==
    /\ r.kind = "body"
    /\ r.body.t = "obj"
    /\ "data" \in DOMAIN r.body.o
    /\ r.body.o.data.t # "null"

\* The response is JSON whose data is null or absent.
NoData(r) ==
    /\ r.kind = "body"
    /\ \/ r.body.t = "null"
       \/ /\ r.body.t = "obj"
          /\ ("data" \in DOMAIN r.body.o => r.body.o.data.t = "null")

\* The document is an object with a numeric id.
HasNumericID(d) == d.t = "obj" /\ "id" \in DOMAIN d.o /\ d.o.id.t = "num"

\* data is an array whose first element has id N.
FirstIs(r, N) ==
    /\ HasData(r)
    /\ r.body.o.data.t = "arr"
    /\ Len(r.body.o.data.a) >= 1
    /\ HasNumericID(r.body.o.data.a[1])
    /\ r.body.o.data.a[1].o.id.n10 = 10 * N

\* data is an object with id M.
CreatedIs(r, M) ==
    /\ HasData(r)
    /\ HasNumericID(r.body.o.data)
    /\ r.body.o.data.o.id.n10 = 10 * M

\* C1: in FindOrCreateOrganization and FindOrCreatePerson, once the search
\* GET has returned non-null data whose first element has id N, the call has
\* returned no error, the entity's id is N and no POST was issued.
FoundResolvesWithoutCreate ==
    \A p \in Procs : \A N \in 1..MaxId :
        (ent[p].kind \in Find /\ Len(got[p]) >= 1 /\ FirstIs(got[p][1], N))
        => /\ pc[p] = "returned"
           /\ err[p] = Nil
           /\ ent[p].ID = N
           /\ PostsOf(p) = 0
           /\ Len(wire[p]) = 1

\* C1 happens: a match with other fields and a second element, on an entity
\* that came in with another id.
FoundResolvesWitness ==
    \E p \in Procs :
        /\ ent[p].kind \in Find
        /\ Len(got[p]) = 1
        /\ FirstIs(got[p][1], 1)
        /\ Len(got[p][1].body.o.data.a) = 2
        /\ "name" \in DOMAIN got[p][1].body.o.data.a[1].o
        /\ entry[p].ID = 9
        /\ ent[p].ID = 1

\* C2: in FindOrCreateOrganization and FindOrCreatePerson, once the search
\* GET has returned null data and the create POST has returned an object
\* data with id M, the call has returned no error, the entity's id is M, and
\* the requests issued are exactly one GET followed by one POST.
NotFoundCreatesOnce ==
    \A p \in Procs : \A M \in 1..MaxId :
        (ent[p].kind \in Find /\ Len(got[p]) = 2
           /\ NoData(got[p][1]) /\ CreatedIs(got[p][2], M))
        => /\ pc[p] = "returned"
           /\ err[p] = Nil
           /\ ent[p].ID = M
           /\ Len(wire[p]) = 2
           /\ wire[p][1].method = "GET"
           /\ wire[p][2].method = "POST"

\* C2 happens: a person that came in with another id is created with id 2.
NotFoundCreatesWitness ==
    \E p \in Procs :
        /\ ent[p].kind = "person"
        /\ Len(got[p]) = 2
        /\ NoData(got[p][1])
        /\ CreatedIs(got[p][2], 2)
        /\ entry[p].ID = 9
        /\ ent[p].ID = 2

\* C3: FindOrCreatePerson on a person with no email fails with
\* InvalidArgument, issues no GET and no POST and leaves the id unchanged.
NoEmailFailsFast ==
    \A p \in Procs :
        (entry[p].kind = "person" /\ Len(entry[p].Email) = 0)
        => /\ pc[p] = "returned"
           /\ err[p].type = "InvalidArgument"
           /\ wire[p] = <<>>
           /\ got[p] = <<>>
           /\ ent[p].ID = entry[p].ID

\* C3 happens.
NoEmailWitness ==
    \E p \in Procs :
        /\ entry[p].kind = "person"
        /\ Len(entry[p].Email) = 0
        /\ entry[p].ID = 9
        /\ pc[p] = "returned"

\* URL building and encoding succeed for a deal: the base URL has no bad
\* escape and every extra field can be encoded.
DealBuilds(c, deal) ==
    /\ \A i \in 1..Len(c.BaseURL) : c.BaseURL[i] # "%"
    /\ \A k \in DOMAIN deal.Fields : deal.Fields[k].t # "chan"

\* C4 as stated: for every extra-fields mapping, the payload CreateDeal
\* POSTs has user_id equal to defaultOwnerID when the deal's userID is 0 and
\* defaultOwnerID is set, and a non-zero userID is not replaced.
DealPayloadUserAnyFields ==
    \A p \in Procs :
        (entry[p].kind = "deal" /\ PostsOf(p) >= 1)
        => /\ (entry[p].UserID = 0 /\ client.DefaultUserID # 0)
                => wire[p][1].body.o.user_id = JInt(client.DefaultUserID)
           /\ entry[p].UserID # 0 => ent[p].UserID = entry[p].UserID

\* C4, amended: for every deal whose extra fields have no user_id key, the
\* payload CreateDeal POSTs has user_id equal to defaultOwnerID when the
\* deal's userID is 0 and defaultOwnerID is set, and equal to the deal's own
\* userID, which is left as it was, when that is not 0.
DealPayloadUser ==
    \A p \in Procs :
        (entry[p].kind = "deal" /\ PostsOf(p) >= 1
           /\ "user_id" \notin DOMAIN entry[p].Fields)
        => /\ (entry[p].UserID = 0 /\ client.DefaultUserID # 0)
                => wire[p][1].body.o.user_id = JInt(client.DefaultUserID)
           /\ entry[p].UserID # 0
                => /\ wire[p][1].body.o.user_id = JInt(entry[p].UserID)
                   /\ ent[p].UserID = entry[p].UserID

\* C4 happens: a deal with no user and an extra field, under a default user.
DealPayloadUserWitness ==
    \E p \in Procs :
        /\ entry[p].kind = "deal"
        /\ entry[p].UserID = 0
        /\ client.DefaultUserID = 7
        /\ "custom" \in DOMAIN entry[p].Fields
        /\ PostsOf(p) = 1
        /\ wire[p][1].body.o.user_id = JInt(7)

\* C5: when a call has returned an error the entity's id is the one it had
\* before the call; the id differs from it only after a return without error.
ErrorLeavesID ==
    \A p \in Procs :
        pc[p] # "idle"
        => /\ (pc[p] = "returned" /\ err[p] # Nil) => ent[p].ID = entry[p].ID
           /\ ent[p].ID # entry[p].ID => (pc[p] = "returned" /\ err[p] = Nil)

\* C5 happens: a creation that failed on an entity that came in with an id.
ErrorLeavesIDWitness ==
    \E p \in Procs :
        /\ pc[p] = "returned"
        /\ err[p].type = "CreationFailed"
        /\ entry[p].kind = "deal"
        /\ entry[p].ID = 9

\* C6: a CreationFailed error carries the body of the response to the
\* create (POST) request, not that of an earlier request of the call.  The
\* body counts as carried when the error holds it raw or, as CreateDeal
\* does, holds the print of the map decoded from it.
CreationFailedCarriesCreateBody ==
    \A p \in Procs :
        (pc[p] = "returned" /\ err[p].type = "CreationFailed")
        => /\ Len(got[p]) = Len(wire[p])
           /\ wire[p][Len(wire[p])].method = "POST"
           /\ got[p][Len(got[p])].kind = "body"
           /\ \/ err[p].carried = got[p][Len(got[p])].body
              \/ /\ err[p].carried.t = "printed"
                 /\ got[p][Len(got[p])].body.t = "obj"
                    => err[p].carried.data = got[p][Len(got[p])].body.o

\* The response has data, and not of the shape the search path reads.
MalformedSearch(r) ==
    /\ HasData(r)
    /\ ~ /\ r.body.o.data.t = "arr"
         /\ Len(r.body.o.data.a) >= 1
         /\ HasNumericID(r.body.o.data.a[1])

\* The response has data, and not of the shape the create path reads.
MalformedCreate(r) ==
    /\ HasData(r)
    /\ ~HasNumericID(r.body.o.data)

\* C7: after a response whose data is non-null and not of the expected
\* shape, the call has returned a MalformedResponse error with the id
\* unchanged and, on the search path, no POST issued; a call is never in a
\* state other than running, returned success or returned error.
MalformedResponseIsReturned ==
    \A p \in Procs :
        /\ pc[p] \in {"idle", "get", "post", "returned"}
        /\ (entry[p].kind \in Find /\ Len(got[p]) >= 1 /\ MalformedSearch(got[p][1]))
           => /\ pc[p] = "returned"
              /\ err[p].type = "MalformedResponse"
              /\ ent[p].ID = entry[p].ID
              /\ PostsOf(p) = 0
        /\ (PostsOf(p) = 1 /\ Len(got[p]) = Len(wire[p])
              /\ MalformedCreate(got[p][Len(got[p])]))
           => /\ pc[p] = "returned"
              /\ err[p].type = "MalformedResponse"
              /\ ent[p].ID = entry[p].ID

\* C8: when Get or Post has returned an error, the call has returned that
\* same error and the failed request is the last one it issued: after a
\* failed GET there is no POST and no second GET, after a failed POST no
\* further request.
TransportErrorEndsCall ==
    \A p \in Procs : \A i \in 1..Len(got[p]) :
        got[p][i].kind = "error"
        => /\ pc[p] = "returned"
           /\ err[p].type = "TransportError"
           /\ err[p].e = got[p][i].e
           /\ i = Len(got[p])
           /\ Len(wire[p]) = i
           /\ wire[p][i].method = "GET" => (GetsOf(p) = 1 /\ PostsOf(p) = 0)
           /\ wire[p][i].method = "POST" => PostsOf(p) = 1

\* C8 happens: a POST that fails after a search that found nothing.
TransportErrorWitness ==
    \E p \in Procs :
        /\ Len(got[p]) = 2
        /\ got[p][2].kind = "error"
        /\ got[p][2].e = "refused"
        /\ wire[p][2].method = "POST"

\* C9: a call issues at most one GET and at most one POST, and a
\* find-or-create call issues its POST only after its GET, and only when
\* that GET returned null or absent data.
AtMostOneGetOnePost ==
    \A p \in Procs :
        /\ GetsOf(p) <= 1
        /\ PostsOf(p) <= 1
        /\ (entry[p].kind \in Find /\ PostsOf(p) >= 1)
           => /\ Len(wire[p]) = 2
              /\ wire[p][1].method = "GET"
              /\ wire[p][2].method = "POST"
              /\ Len(got[p]) >= 1
              /\ NoData(got[p][1])

\* C9 happens: a find-or-create call that went on to create.
AtMostOneGetOnePostWitness ==
    \E p \in Procs :
        /\ entry[p].kind = "org"
        /\ GetsOf(p) = 1
        /\ PostsOf(p) = 1
        /\ Len(got[p]) = 2
        /\ pc[p] = "returned"

\* C10: CreateDeal issues no GET, and when URL building and encoding
\* succeed the requests it issues are exactly one POST to /deals.
DealNeverSearches ==
    \A p \in Procs :
        entry[p].kind = "deal"
        => /\ GetsOf(p) = 0
           /\ Len(wire[p]) <= 1
           /\ DealBuilds(client, entry[p])
              => /\ Len(wire[p]) = 1
                 /\ wire[p][1].method = "POST"
                 /\ wire[p][1].url.Head = client.BaseURL \o <<"/deals">>

\* C10 happens: a deal created.
DealNeverSearchesWitness ==
    \E p \in Procs :
        /\ entry[p].kind = "deal"
        /\ pc[p] = "returned"
        /\ err[p] = Nil
        /\ ent[p].ID = 2
        /\ wire[p][1].method = "POST"

\* C11: the payload FindOrCreatePerson POSTs holds the person's name,
\* emails, phones and organization id, and the default owner id when one is
\* configured; every phone number of the person is in it.
PersonPayloadHasPhones ==
    \A p \in Procs :
        (entry[p].kind = "person" /\ PostsOf(p) >= 1)
        => LET payload == wire[p][2].body.o
           IN /\ payload.name = JStr(entry[p].Name)
              /\ payload.email.t = "arr"
              /\ \A i \in 1..Len(entry[p].Email) :
                    \E j \in 1..Len(payload.email.a) :
                        payload.email.a[j] = JStr(entry[p].Email[i])
              /\ payload.org_id = JInt(entry[p].OrganizationID)
              /\ client.DefaultUserID # 0
                    => payload.owner_id = JInt(client.DefaultUserID)
              /\ \A i \in 1..Len(entry[p].Phone) :
                    /\ "phone" \in DOMAIN payload
                    /\ payload.phone.t = "arr"
                    /\ \E j \in 1..Len(payload.phone.a) :
                          payload.phone.a[j] = JStr(entry[p].Phone[i])

\* The owner an entity names: its OwnerID, else the owner_id among its extra
\* fields, else none (Nil).
OwnOwner(e) ==
    IF e.OwnerID # 0 THEN JInt(e.OwnerID)
    ELSE IF e.kind = "org" /\ "owner_id" \in DOMAIN e.Fields THEN e.Fields.owner_id
    ELSE Nil

\* C12: on the not-found path the payload's owner_id is the default owner
\* only when the entity names no owner; for an entity that names one, the
\* payload's owner_id is the entity's own.
OwnerDefaultOnlyWhenUnset ==
    \A p \in Procs :
        (entry[p].kind \in Find /\ PostsOf(p) >= 1)
        => LET payload == wire[p][2].body.o
           IN /\ OwnOwner(entry[p]) # Nil
                    => /\ "owner_id" \in DOMAIN payload
                       /\ payload.owner_id = OwnOwner(entry[p])
              /\ (OwnOwner(entry[p]) = Nil /\ client.DefaultUserID # 0)
                    => /\ "owner_id" \in DOMAIN payload
                       /\ payload.owner_id = JInt(client.DefaultUserID)

\* The entity is as it came in, but for its ID.
OnlyIDChanged(before, after) == [after EXCEPT !.ID = before.ID] = before

\* C18 as stated: a call changes no field of the entity passed to it other
\* than the id, and no step changes the client.
OnlyIDIsWritten ==
    [][/\ client' = client
       /\ \A p \in Procs : pc'[p] # "idle" => OnlyIDChanged(entry'[p], ent'[p])]_vars

\* C18, amended: FindOrCreateOrganization and FindOrCreatePerson change no
\* field of the entity other than the id; CreateDeal changes no field of the
\* deal other than the id and the UserID, which it sets to the client's
\* DefaultUserID when the deal's UserID is 0 and a default is configured;
\* no step changes the client.
OnlyIDAndDealUserAreWritten ==
    [][/\ client' = client
       /\ \A p \in Procs :
            /\ (pc'[p] # "idle" /\ entry'[p].kind \in Find)
               => OnlyIDChanged(entry'[p], ent'[p])
            /\ (pc'[p] # "idle" /\ entry'[p].kind = "deal")
               => /\ OnlyIDChanged([entry'[p] EXCEPT !.UserID = ent'[p].UserID], ent'[p])
                  /\ ent'[p].UserID =
                        IF entry'[p].UserID = 0 /\ client.DefaultUserID # 0
                        THEN client.DefaultUserID
                        ELSE entry'[p].UserID]_vars

\* C18 happens: a deal that names no user is created under a default user,
\* and comes back with a new id and with the default user.
OnlyIDWitness ==
    \E p \in Procs :
        /\ entry[p].kind = "deal"
        /\ entry[p].UserID = 0
        /\ client.DefaultUserID = 7
        /\ pc[p] = "returned"
        /\ err[p] = Nil
        /\ ent[p].ID # entry[p].ID
        /\ ent[p].UserID = 7

(***************************************************************************)
(* The URL builder                                                         *)
(***************************************************************************)
\* The parameters a server reads from the query of a built URL.
QueryOf(built) == ParseQuery(built.url.RawQuery)

\* The i-th built URL, when there is one and authenticatedURL returned no error.
BuiltOK(i) == i \in 1..Len(urlOut) /\ urlOut[i].err = Nil

\* The name or first email address searched for.
SearchKey == IF urlIn.kind = "org" THEN urlIn.Name ELSE urlIn.Email[1]

\* C13: for every organization name and every first email address, reserved
\* characters included, the query of the search URL has exactly the
\* parameters api_token and term (and search_by_email=1 for a person), and
\* term decodes to exactly the name or the first email address.
SearchTermIsTheKey ==
    \A i \in 1..MaxBuilds :
        (BuiltOK(i) /\ urlIn.kind \in Find) =>
            LET q == QueryOf(urlOut[i])
            IN /\ DOMAIN q = {<<"api_token">>, <<"term">>}
                              \cup (IF urlIn.kind = "person"
                                    THEN {<<"search_by_email">>} ELSE {})
               /\ q[<<"term">>] = <<SearchKey>>
               /\ q[<<"api_token">>] = <<client.APIToken>>
               /\ urlIn.kind = "person" => q[<<"search_by_email">>] = <<<<"1">>>>

\* The query of the path given: what is between the first "?" and the first "#".
PathQuery == Before(After(urlIn.path, "?"), "#")

\* A key or a value as it is written in a path: "+" is a space, an escape
\* is its byte, anything else is itself.
Written(s) == QueryUnescape(s)

\* C14: a built URL has every parameter of the path's query, each key with
\* its value, and api_token with the client's token; for a path without a
\* query it is exactly base + path + "?api_token=" + token.
ParametersArePreserved ==
    \A i \in 1..MaxBuilds :
        (BuiltOK(i) /\ urlIn.kind = "path") =>
            LET q == QueryOf(urlOut[i])
                pieces == SplitAmp(PathQuery)
            IN /\ <<"api_token">> \in DOMAIN q
               /\ \E j \in 1..Len(q[<<"api_token">>]) :
                      q[<<"api_token">>][j] = client.APIToken
               /\ \A j \in 1..Len(pieces) :
                      pieces[j] # <<>> =>
                          LET key == Written(Before(pieces[j], "="))
                              value == Written(After(pieces[j], "="))
                          IN /\ key \in DOMAIN q
                             /\ \E k \in 1..Len(q[key]) : q[key][k] = value
               /\ IndexOf(urlIn.path, "?", 1) = 0 =>
                      String(urlOut[i].url)
                          = client.BaseURL \o urlIn.path
                            \o <<"?", "api_token", "=">> \o client.APIToken

\* The path given has a parameter api_token.
PathHasToken ==
    \E j \in 1..Len(SplitAmp(PathQuery)) :
        Before(SplitAmp(PathQuery)[j], "=") = <<"api_token">>

\* C15: when the path already has an api_token parameter, the built URL has
\* exactly one api_token value, the client's token.
TokenIsOverwritten ==
    \A i \in 1..MaxBuilds :
        (BuiltOK(i) /\ urlIn.kind = "path" /\ PathHasToken) =>
            QueryOf(urlOut[i])[<<"api_token">>] = <<client.APIToken>>

\* The keys of a raw query, piece by piece, in the order they are written.
KeysWritten(raw) ==
    LET pieces == SplitAmp(raw)
    IN [j \in 1..Len(pieces) |-> Written(Before(pieces[j], "="))]

Ascending(keys) ==
    \A j, k \in 1..Len(keys) : j < k => ~StringLess(keys[k], keys[j])

\* C16: two calls of authenticatedURL with the same client and path return
\* the same result, and the keys of a built query are in ascending order
\* whatever their order in the path.
BuildIsDeterministicAndSorted ==
    /\ Len(urlOut) = MaxBuilds => urlOut[1] = urlOut[2]
    /\ \A i \in 1..MaxBuilds :
           BuiltOK(i) => Ascending(KeysWritten(urlOut[i].url.RawQuery))

\* Built twice from a path whose keys are written in descending order.
BuildSortedWitness ==
    /\ urlIn.kind = "path"
    /\ KeysWritten(PathQuery) = <<<<"zed">>, <<"term">>>>
    /\ Len(urlOut) = MaxBuilds
    /\ BuiltOK(1)
    /\ KeysWritten(urlOut[1].url.RawQuery) = <<<<"api_token">>, <<"term">>, <<"zed">>>>

(***************************************************************************)
(* The upsert against the remote store                                     *)
(***************************************************************************)
BothResolved ==
    \A p \in Procs : pc[p] = "returned" /\ err[p] = Nil /\ entry[p].kind \in Find

\* C17: two calls in sequence with the same name (first email address)
\* against a store in which a created entity is findable by its key, with
\* no failure, resolve the same id and issue one POST in total (none when
\* the entity was there before the first call).
SequentialUpsertIsIdempotent ==
    BothResolved =>
        /\ ent["p1"].ID = ent["p2"].ID
        /\ PostsOf("p1") + PostsOf("p2") = IF HasData(got["p1"][1]) THEN 0 ELSE 1

\* C19: two concurrent calls with the same key, on distinct entities, issue
\* at most one creation POST under every interleaving, and resolve the same
\* id.
ConcurrentUpsertCreatesOnce ==
    /\ PostsOf("p1") + PostsOf("p2") <= 1
    /\ BothResolved => ent["p1"].ID = ent["p2"].ID

====
